---- MODULE Spec2Model ----
(***************************************************************************)
(* Model of the moodsync-app emotion engine (src/src/ai/EmotionEngine.js). *)
(* and of the smart home service (server/services/SmartHomeService.js).    *)
(*                                                                         *)
(* Numbers are fixed point: One (1000) stands for 1.0, so 0.1 is 100 and   *)
(* 0.01 is 10.  A JavaScript null/undefined is the empty sequence <<>> and *)
(* a present value v is <<v>>.  Array indices are 1-based; indexOf's -1    *)
(* ("not found") is 0.  NaN (the result of 0 / 0) is -1.                   *)
(***************************************************************************)
EXTENDS Integers, Sequences, FiniteSets, TLC

\* ------------------------------------------------------------------ bounds
\* Number of detectEmotion calls made on the engine (each may overlap the others).
NumReq == 2
\* Longest history a caller passes to the insight functions.
MaxHistory == 11

\* ------------------------------------------------------------- fixed point
One == 1000
Null == <<>>
Some(v) == <<v>>
IsNull(o) == o = <<>>
Val(o) == o[1]

Min(a, b) == IF a < b THEN a ELSE b
Max(a, b) == IF a > b THEN a ELSE b
\* Math.max(0, Math.min(1, x))
Clamp01(x) == Max(0, Min(One, x))
\* a * b of two fixed-point numbers
Mul(a, b) == (a * b) \div One
\* the NaN that 0 / 0 gives; no number of the model is negative otherwise
NaN == -1
\* a / b of two fixed-point numbers that are not negative
Div(a, b) == IF a = NaN \/ b = NaN \/ b = 0 THEN NaN ELSE (a * One) \div b

\* --------------------------------------------------------------- constants
\* this.emotions.primary
Primary == <<"happy", "sad", "angry", "fearful", "surprised", "disgusted", "neutral">>
NumLabels == Len(Primary)
\* this.models keys
ModelNames == {"facial", "voice", "text", "fusion"}
\* const updateRate = 0.01
updateRate == 10
\* adaptationRate: 0.1 of the default calibration
DefaultAdaptationRate == 100
\* the 0.1 of learningRate * 0.1
FeedbackFactor == 100
\* 0.5 of the neutral personality profile
NeutralTrait == 500

\* Array.prototype.indexOf: first position of x, 0 when absent (JS -1)
IndexOf(seq, x) ==
  IF \E i \in 1..Len(seq) : seq[i] = x
  THEN CHOOSE i \in 1..Len(seq) : seq[i] = x /\ \A j \in 1..(i - 1) : seq[j] # x
  ELSE 0

\* Array(n).fill(0)
Zeros(n) == [i \in 1..n |-> 0]

\* default calibration of loadCalibrationData
DefaultCalibration ==
  [facialBias |-> Zeros(7), voiceBias |-> Zeros(7),
   personalityFactors |-> <<>>, adaptationRate |-> DefaultAdaptationRate]

\* neutral personality profile of initializePersonalityProfiling
DefaultPersonality(t) ==
  [openness |-> NeutralTrait, conscientiousness |-> NeutralTrait,
   extraversion |-> NeutralTrait, agreeableness |-> NeutralTrait,
   neuroticism |-> NeutralTrait, lastUpdated |-> t]

\* JSON.stringify of the calibration object: the members in insertion order
StringifyCalibration(c) ==
  <<"{", "facialBias", c.facialBias, "voiceBias", c.voiceBias,
    "personalityFactors", c.personalityFactors,
    "adaptationRate", c.adaptationRate, "}">>

\* JSON.parse of a calibration file
ParseCalibration(s) ==
  [facialBias |-> s[3], voiceBias |-> s[5],
   personalityFactors |-> s[7], adaptationRate |-> s[9]]

\* JSON.stringify of the personality object
StringifyPersonality(p) ==
  <<"{", "openness", p.openness, "conscientiousness", p.conscientiousness,
    "extraversion", p.extraversion, "agreeableness", p.agreeableness,
    "neuroticism", p.neuroticism, "lastUpdated", p.lastUpdated, "}">>

\* JSON.parse of a personality file
ParsePersonality(s) ==
  [openness |-> s[3], conscientiousness |-> s[5], extraversion |-> s[7],
   agreeableness |-> s[9], neuroticism |-> s[11], lastUpdated |-> s[13]]

\* ---------------------------------------------------------- pure functions
\* Math.max(...v); -Infinity of the empty list is not needed: v is non-empty
RECURSIVE MaxOf(_)
MaxOf(v) == IF Len(v) = 1 THEN v[1] ELSE Max(v[1], MaxOf(Tail(v)))

RECURSIVE SumOf(_)
SumOf(v) == IF Len(v) = 0 THEN 0 ELSE v[1] + SumOf(Tail(v))

\* this.calibrationData[`${modality}Bias`] (undefined, here Null, for a modality without one)
BiasOf(cal, modality) ==
  CASE modality = "facial" -> Some(cal.facialBias)
    [] modality = "voice" -> Some(cal.voiceBias)
    [] OTHER -> Null

\* applyCalibratedBias without the clamp
applyCalibratedBias_NoClamp(cal, probabilities, modality) ==
  LET b == BiasOf(cal, modality)
      bias == IF IsNull(b) THEN Zeros(Len(probabilities)) ELSE Val(b)
  IN [i \in 1..Len(probabilities) |->
        probabilities[i] + Mul(bias[i], cal.adaptationRate)]

\* applyCalibratedBias(probabilities, modality) on calibration object cal
applyCalibratedBias(cal, probabilities, modality) ==
  LET b == BiasOf(cal, modality)
      bias == IF IsNull(b) THEN Zeros(Len(probabilities)) ELSE Val(b)
  IN [i \in 1..Len(probabilities) |->
        Clamp01(probabilities[i] + Mul(bias[i], cal.adaptationRate))]

\* mapSentimentToEmotion([negative, neutral, positive])
mapSentimentToEmotion(sentimentProbs) ==
  LET negative == sentimentProbs[1]
      neutral  == sentimentProbs[2]
      positive == sentimentProbs[3]
  IN << Mul(positive, 800), Mul(negative, 600), Mul(negative, 400),
        Mul(negative, 200), Mul(positive, 300), Mul(negative, 300),
        Mul(neutral, 900) >>

\* AdjustFactor that scales surprised by extraversion as well
AdjustFactor_ScalesSurprised(personality, i) ==
  CASE i = 1 -> One + Mul(personality.extraversion, 200)
    [] i = 2 -> One + Mul(personality.neuroticism, 300)
    [] i = 3 -> One + Mul(personality.neuroticism, 200)
    [] i = 4 -> One + Mul(personality.neuroticism, 400)
    [] i = 5 -> One + Mul(personality.extraversion, 200)
    [] OTHER -> One

\* the factor (1 + trait * k) applied to label i, scaled by One
AdjustFactor(personality, i) ==
  CASE i = 1 -> One + Mul(personality.extraversion, 200)
    [] i = 2 -> One + Mul(personality.neuroticism, 300)
    [] i = 3 -> One + Mul(personality.neuroticism, 200)
    [] i = 4 -> One + Mul(personality.neuroticism, 400)
    [] OTHER -> One

\* applyPersonalityAdjustment that does not divide by the sum
applyPersonalityAdjustment_NoNormalize(personality, probabilities) ==
  [i \in 1..Len(probabilities) |->
     (probabilities[i] * AdjustFactor(personality, i)) \div One]

\* applyPersonalityAdjustment(probabilities) with this.personalityProfile = personality.
\* A zero sum gives 0 / 0 = NaN in every entry.
applyPersonalityAdjustment(personality, probabilities) ==
  LET adjusted == [i \in 1..Len(probabilities) |->
                     probabilities[i] * AdjustFactor(personality, i)]
      sum == SumOf(adjusted)
  IN [i \in 1..Len(adjusted) |->
        IF sum = 0 THEN NaN ELSE (adjusted[i] * One) \div sum]

\* indices of v in the order of a stable sort by descending value
\* (indexed.sort((a, b) => b.probability - a.probability))
RECURSIVE SortDesc(_, _)
SortDesc(v, rest) ==
  IF rest = {} THEN <<>>
  ELSE LET top == CHOOSE i \in rest :
                    \A j \in rest : v[i] > v[j] \/ (v[i] = v[j] /\ i <= j)
       IN <<top>> \o SortDesc(v, rest \ {top})

\* analyzeEmotionHierarchy whose secondary slice starts one place late
analyzeEmotionHierarchy_LateSlice(probabilities) ==
  LET order == SortDesc(probabilities, 1..Len(probabilities))
      indexed == [k \in 1..Len(order) |->
                    [emotion |-> Primary[order[k]], probability |-> probabilities[order[k]]]]
  IN [primary |-> indexed[1],
      secondary |-> SubSeq(indexed, 3, 4),
      all |-> indexed]

\* analyzeEmotionHierarchy(probabilities)
analyzeEmotionHierarchy(probabilities) ==
  LET order == SortDesc(probabilities, 1..Len(probabilities))
      indexed == [k \in 1..Len(order) |->
                    [emotion |-> Primary[order[k]], probability |-> probabilities[order[k]]]]
  IN [primary |-> indexed[1],
      secondary |-> SubSeq(indexed, 2, 3),
      all |-> indexed]

\* r.probabilities.indexOf(Math.max(...r.probabilities))
ArgMax(v) == IndexOf(v, MaxOf(v))

\* calculateModalityAgreement that compares each observation with itself too
calculateModalityAgreement_SelfPairs(modalityResults) ==
  LET maxIndex == [k \in 1..Len(modalityResults) |->
                     ArgMax(modalityResults[k].probabilities)]
      pairs == {p \in (1..Len(modalityResults)) \X (1..Len(modalityResults)) :
                  p[1] <= p[2]}
      agreements == Cardinality({p \in pairs : maxIndex[p[1]] = maxIndex[p[2]]})
      comparisons == Cardinality(pairs)
  IN IF comparisons > 0 THEN Div(agreements, comparisons) ELSE One

\* calculateModalityAgreement(modalityResults)
calculateModalityAgreement(modalityResults) ==
  IF Len(modalityResults) < 2 THEN One
  ELSE LET maxIndex == [k \in 1..Len(modalityResults) |->
                          ArgMax(modalityResults[k].probabilities)]
           pairs == {p \in (1..Len(modalityResults)) \X (1..Len(modalityResults)) :
                       p[1] < p[2]}
           agreements == Cardinality({p \in pairs : maxIndex[p[1]] = maxIndex[p[2]]})
           comparisons == Cardinality(pairs)
       IN IF comparisons > 0 THEN Div(agreements, comparisons) ELSE One

\* calculateFusionConfidence(modalityResults, finalProbs); the average of an
\* empty list is 0 / 0
calculateFusionConfidence(modalityResults, finalProbs) ==
  LET modalityConfidences == [k \in 1..Len(modalityResults) |->
                                modalityResults[k].confidence]
      avgModalityConfidence ==
        IF Len(modalityConfidences) = 0 THEN NaN
        ELSE SumOf(modalityConfidences) \div Len(modalityConfidences)
      finalConfidence == MaxOf(finalProbs)
      agreement == calculateModalityAgreement(modalityResults)
  IN [overall |-> IF avgModalityConfidence = NaN \/ finalConfidence = NaN THEN NaN
                  ELSE (avgModalityConfidence + finalConfidence + agreement) \div 3,
      modality |-> avgModalityConfidence,
      fusion |-> finalConfidence,
      agreement |-> agreement]

\* calculateModalityContributions that gives every modality the same share
calculateModalityContributions_EqualShares(modalityResults) ==
  LET keys == {modalityResults[k].modality : k \in 1..Len(modalityResults)}
  IN [m \in keys |-> Div(1, Len(modalityResults))]

\* calculateModalityContributions(modalityResults): an object keyed by modality
calculateModalityContributions(modalityResults) ==
  LET totalConfidence == SumOf([k \in 1..Len(modalityResults) |->
                                  modalityResults[k].confidence])
      keys == {modalityResults[k].modality : k \in 1..Len(modalityResults)}
      last(m) == CHOOSE k \in 1..Len(modalityResults) :
                   /\ modalityResults[k].modality = m
                   /\ \A j \in (k + 1)..Len(modalityResults) :
                        modalityResults[j].modality # m
  IN [m \in keys |-> Div(modalityResults[last(m)].confidence, totalConfidence)]

\* how a call ends: it returns value v (JavaScript null is Null) ...
Returned(v) == [threw |-> "", at |-> "", value |-> v]
\* ... or throws the error name at the call of the method at
Threw(name, at) == [threw |-> name, at |-> at, value |-> Null]

\* const positiveEmotions of assessWellness
positiveEmotions == {"happy", "excited", "content", "calm"}

\* Array.prototype.slice(-n)
LastN(seq, n) == SubSeq(seq, Max(1, Len(seq) - n + 1), Len(seq))

\* the local wellnessScore of assessWellness when line 837 is reached
wellnessScore(result, historicalData) ==
  LET isPositive == result.primaryEmotion.emotion \in positiveEmotions
      scaled == Mul(IF isPositive THEN 700 ELSE 300, result.confidence.overall)
      recent == LastN(historicalData, 5)
      recentPositive ==
        Cardinality({k \in 1..Len(recent) :
                       recent[k].primaryEmotion.emotion \in positiveEmotions})
  IN IF Len(historicalData) > 0
     THEN (scaled + Div(recentPositive, 5)) \div 2
     ELSE scaled

\* the level of line 839
wellnessLevel(score) ==
  IF score > 700 THEN "high" ELSE IF score > 400 THEN "medium" ELSE "low"

\* assessWellness(result, historicalData): the score and the level are
\* computed, then the returned object calls this.identifyWellnessFactors,
\* which the class does not define (nor getWellnessSuggestions)
assessWellness(result, historicalData) ==
  LET score == wellnessScore(result, historicalData)
      level == wellnessLevel(score)
  IN Threw("TypeError", "identifyWellnessFactors")

\* Object.keys(emotionCounts): the labels of the results in the order of
\* their first occurrence
RECURSIVE CountKeys(_)
CountKeys(recentEmotions) ==
  IF Len(recentEmotions) = 0 THEN <<>>
  ELSE LET front == CountKeys(SubSeq(recentEmotions, 1, Len(recentEmotions) - 1))
           emotion == recentEmotions[Len(recentEmotions)].primaryEmotion.emotion
       IN IF IndexOf(front, emotion) # 0 THEN front ELSE Append(front, emotion)

\* emotionCounts[emotion]
emotionCount(recentEmotions, emotion) ==
  Cardinality({k \in 1..Len(recentEmotions) :
                 recentEmotions[k].primaryEmotion.emotion = emotion})

\* keys.reduce((a, b) => emotionCounts[a] > emotionCounts[b] ? a : b)
RECURSIVE mostFrequent(_, _)
mostFrequent(recentEmotions, keys) ==
  IF Len(keys) = 1 THEN keys[1]
  ELSE LET a == mostFrequent(recentEmotions, SubSeq(keys, 1, Len(keys) - 1))
           b == keys[Len(keys)]
       IN IF emotionCount(recentEmotions, a) > emotionCount(recentEmotions, b)
          THEN a ELSE b

\* analyzeTrends(historicalData): null below two results; else mostFrequent
\* and diversity are computed over the last 10 results, then the returned
\* object calls identifyPatterns, which calls this.findDailyPatterns, which
\* the class does not define (nor findWeeklyPatterns, findContextualTriggers)
analyzeTrends(historicalData) ==
  IF Len(historicalData) < 2 THEN Returned(Null)
  ELSE LET recentEmotions == LastN(historicalData, 10)
           keys == CountKeys(recentEmotions)
           dominant == mostFrequent(recentEmotions, keys)
           diversity == Len(keys)
       IN Threw("TypeError", "findDailyPatterns")

\* generateRecommendations(result, historicalData): getMusicRecommendation
\* calls this.getGenresForEmotion, which the class does not define
generateRecommendations(result, historicalData) ==
  Threw("TypeError", "getGenresForEmotion")

\* getEmotionInsights(result, historicalData): the members of the returned
\* object are evaluated in order (current, trends, recommendations, wellness)
getEmotionInsights(result, historicalData) ==
  LET trends == analyzeTrends(historicalData)
      recommendations == generateRecommendations(result, historicalData)
  IN IF trends.threw # "" THEN trends
     ELSE IF recommendations.threw # "" THEN recommendations
     ELSE assessWellness(result, historicalData)

\* FeedbackDelta without the factor 0.1
FeedbackDelta_NoFactor(cal) == cal.adaptationRate

\* the bias increment learningRate * 0.1 of updateCalibration
FeedbackDelta(cal) == Mul(cal.adaptationRate, FeedbackFactor)

\* HasFeedback without the early return
HasFeedback_Always(feedback) == TRUE

\* updateCalibration's early return (if (!feedback) return;): TRUE when the
\* call goes on to the update and the save
HasFeedback(feedback) == ~IsNull(feedback)

\* updateCalibration without the correctIndex !== -1 test: a label that is
\* not found falls on the last entry
updateCalibration_NoGuard(cal, fb) ==
  LET correctIndex == IndexOf(Primary, fb.correctEmotion)
      at == IF correctIndex = 0 THEN NumLabels ELSE correctIndex
  IN [cal EXCEPT !.facialBias[at] = @ + Mul(cal.adaptationRate, FeedbackFactor)]

\* the mutation updateCalibration(result, feedback) makes to the calibration
\* object cal, for a feedback object fb (feedback.modality is never read)
updateCalibration(cal, fb) ==
  LET correctIndex == IndexOf(Primary, fb.correctEmotion)
  IN IF fb.correctEmotion # "" /\ correctIndex # 0
     THEN [cal EXCEPT !.facialBias[correctIndex] = @ + FeedbackDelta(cal)]
     ELSE cal

\* updatePersonalityProfile without the clamp of the numeric members
updatePersonalityProfile_NoClamp(p, result, t) ==
  LET primaryEmotion == result.primaryEmotion.emotion
  IN [p EXCEPT !.extraversion = IF primaryEmotion \in {"happy", "excited"}
                                THEN @ + updateRate ELSE @,
               !.neuroticism = IF primaryEmotion \in {"sad", "angry", "fearful"}
                               THEN @ + updateRate ELSE @,
               !.lastUpdated = t]

\* updatePersonalityProfile that lowers the complementary trait
updatePersonalityProfile_Decays(p, result, t) ==
  LET primaryEmotion == result.primaryEmotion.emotion
      e == IF primaryEmotion \in {"happy", "excited"}
           THEN p.extraversion + updateRate
           ELSE IF primaryEmotion \in {"sad", "angry", "fearful"}
           THEN p.extraversion - updateRate ELSE p.extraversion
      n == IF primaryEmotion \in {"sad", "angry", "fearful"}
           THEN p.neuroticism + updateRate ELSE p.neuroticism
  IN [openness |-> Clamp01(p.openness),
      conscientiousness |-> Clamp01(p.conscientiousness),
      extraversion |-> Clamp01(e),
      agreeableness |-> Clamp01(p.agreeableness),
      neuroticism |-> Clamp01(n),
      lastUpdated |-> t]

\* updatePersonalityProfile that counts surprised among the labels of extraversion
updatePersonalityProfile_SurprisedCounts(p, result, t) ==
  LET primaryEmotion == result.primaryEmotion.emotion
      e == IF primaryEmotion \in {"happy", "excited", "surprised"}
           THEN p.extraversion + updateRate ELSE p.extraversion
      n == IF primaryEmotion \in {"sad", "angry", "fearful"}
           THEN p.neuroticism + updateRate ELSE p.neuroticism
  IN [openness |-> Clamp01(p.openness),
      conscientiousness |-> Clamp01(p.conscientiousness),
      extraversion |-> Clamp01(e),
      agreeableness |-> Clamp01(p.agreeableness),
      neuroticism |-> Clamp01(n),
      lastUpdated |-> t]

\* the mutation updatePersonalityProfile(result, context) makes to profile p at time t
updatePersonalityProfile(p, result, t) ==
  LET primaryEmotion == result.primaryEmotion.emotion
      e == IF primaryEmotion \in {"happy", "excited"}
           THEN p.extraversion + updateRate ELSE p.extraversion
      n == IF primaryEmotion \in {"sad", "angry", "fearful"}
           THEN p.neuroticism + updateRate ELSE p.neuroticism
  IN [openness |-> Clamp01(p.openness),
      conscientiousness |-> Clamp01(p.conscientiousness),
      extraversion |-> Clamp01(e),
      agreeableness |-> Clamp01(p.agreeableness),
      neuroticism |-> Clamp01(n),
      lastUpdated |-> t]

\* ------------------------------------------------------------ environment
\* the requests
Req == 1..NumReq
\* the inputs objects the callers pass (the members that are set)
InputChoices == {{}, {"image"}, {"image", "audio"}, {"text"}}
\* outputs of the facial and voice classifiers (black boxes); the facial
\* one has sad ahead of happy by 0.001
HappyVec == <<600, 100, 100, 50, 50, 50, 50>>
SadVec == <<100, 600, 100, 50, 50, 50, 50>>
NearSadVec == <<300, 301, 100, 100, 99, 50, 50>>
ClassifierOutputs(modality) == IF modality = "facial" THEN {NearSadVec} ELSE {SadVec}
\* outputs [negative, neutral, positive] of the text model
SentimentOutputs == {<<700, 200, 100>>}
\* outputs of the fusion model
FusionOutputs == {HappyVec, SadVec}
\* context.feedback: absent, or an object with the label the user gave
\* and the modality it is about
FeedbackChoices ==
  {Null,
   Some([modality |-> "facial", correctEmotion |-> "happy"]),
   Some([modality |-> "voice", correctEmotion |-> "happy"]),
   Some([modality |-> "facial", correctEmotion |-> "excited"])}

\* ------------------------------------------------------------------ state
VARIABLES
  isInitialized,      \* this.isInitialized
  models,             \* the keys of this.models that hold a loaded model
  calibrationData,    \* this.calibrationData (Null or Some(object))
  personalityProfile, \* this.personalityProfile (Null or Some(object))
  calFile,            \* calibration.json: Null (no file) or Some(text)
  persFile,           \* personality.json: Null (no file) or Some(text)
  calSave,            \* per request: the text of its calibration write in flight
  persSave,           \* per request: the text of its personality write in flight
  now,                \* the clock read by new Date()
  pc,                 \* per request: where its detectEmotion call stands
  inputs,             \* per request: the members of inputs that are set
  feedback,           \* per request: context.feedback
  modalityResults,    \* per request: the local list modalityResults
  fusedResult,        \* per request: the local fusedResult (Null until fused)
  error,              \* per request: the error detectEmotion threw (Null for none):
                      \* its name and the step that threw it
  predictions,        \* per request: what prediction.data() gave, by model (the
                      \* locals probabilities and finalProbabilities)
  historicalData,     \* the history the caller passes to the insight functions
  insights,           \* how the caller's last insight call ended (Null before it)
  homeInitialized,    \* SmartHomeService: this.isInitialized
  devices,            \* SmartHomeService: this.devices, device id to its state
  scenes,             \* SmartHomeService: this.scenes, in the order of creation
  automations,        \* SmartHomeService: this.automations, in insertion order
  listeners,          \* SmartHomeService: the events that have a listener
  intervals,          \* the setInterval timers of the service that are running
  stage,              \* where the owner of the service stands in its life cycle
  lastRun             \* what the service's last handler did (Null before it)

engine == <<isInitialized, models, calibrationData, personalityProfile>>
files == <<calFile, persFile>>
saves == <<calSave, persSave>>
profiles == <<calibrationData, personalityProfile, calFile, persFile, calSave, persSave>>
locals == <<inputs, feedback, modalityResults, fusedResult, error, predictions>>
caller == <<historicalData, insights>>
home == <<homeInitialized, devices, scenes, automations, listeners, intervals,
          stage, lastRun>>
vars == <<isInitialized, models, calibrationData, personalityProfile, calFile,
          persFile, calSave, persSave, now, pc, inputs, feedback,
          modalityResults, fusedResult, error, predictions, historicalData,
          insights, homeInitialized, devices, scenes, automations, listeners,
          intervals, stage, lastRun>>

\* the state after new SmartHomeService(): the maps are empty
HomeConstructed ==
  /\ homeInitialized = FALSE
  /\ devices = <<>>
  /\ scenes = <<>>
  /\ automations = <<>>
  /\ listeners = {}
  /\ intervals = 0
  /\ stage = "new"
  /\ lastRun = Null

\* the state after new EmotionEngine(), on a device with no stored profile
Init ==
  /\ isInitialized = FALSE
  /\ models = {}
  /\ calibrationData = Null
  /\ personalityProfile = Null
  /\ calFile = Null
  /\ persFile = Null
  /\ calSave = [r \in Req |-> Null]
  /\ persSave = [r \in Req |-> Null]
  /\ now = 0
  /\ pc = [r \in Req |-> "idle"]
  /\ inputs = [r \in Req |-> {}]
  /\ feedback = [r \in Req |-> Null]
  /\ modalityResults = [r \in Req |-> <<>>]
  /\ fusedResult = [r \in Req |-> Null]
  /\ error = [r \in Req |-> Null]
  /\ predictions = [r \in Req |-> <<>>]
  /\ historicalData = <<>>
  /\ insights = Null
  /\ HomeConstructed

\* the stage of detectEmotion that follows stage k (0: before the first)
\* for the given inputs: the next modality whose input is set, else the fusion
StageAfter(k, ins) ==
  IF k < 1 /\ "image" \in ins THEN "facial"
  ELSE IF k < 2 /\ "audio" \in ins THEN "voice"
  ELSE IF k < 3 /\ "text" \in ins THEN "text"
  ELSE "fuse"

\* detectEmotion's catch: the error is rethrown to the caller
Throw(r, name, step) ==
  /\ pc' = [pc EXCEPT ![r] = "failed"]
  /\ error' = [error EXCEPT ![r] = Some([name |-> name, at |-> step])]

\* ---------------------------------------------------------------- actions
\* detectEmotion(inputs, context) is called: an engine that is not
\* initialized is initialized by this call first
DetectEmotion(r) ==
  /\ pc[r] = "idle"
  /\ \E ins \in InputChoices, fb \in FeedbackChoices :
       /\ inputs' = [inputs EXCEPT ![r] = ins]
       /\ feedback' = [feedback EXCEPT ![r] = fb]
       /\ pc' = [pc EXCEPT ![r] =
                   IF isInitialized THEN StageAfter(0, ins) ELSE "load_models"]
  /\ UNCHANGED <<engine, files, saves, now, modalityResults, fusedResult, error,
                 predictions, caller, home>>

\* initialize(): tf.ready() and the four model loads succeed
LoadModels(r) ==
  /\ pc[r] = "load_models"
  /\ models' = ModelNames
  /\ pc' = [pc EXCEPT ![r] = "cal_info"]
  /\ UNCHANGED <<isInitialized, calibrationData, personalityProfile, files,
                 saves, now, locals, caller, home>>

\* initialize(): the load of model m throws, the other loads complete;
\* initialize and detectEmotion rethrow
LoadModelsFails(r) ==
  /\ pc[r] = "load_models"
  /\ \E m \in ModelNames : models' = models \cup (ModelNames \ {m})
  /\ Throw(r, "Error", "initialize")
  /\ UNCHANGED <<isInitialized, calibrationData, personalityProfile, files,
                 saves, now, inputs, feedback, modalityResults, fusedResult,
                 predictions, caller, home>>

\* loadCalibrationData(): getInfoAsync answers; without a file the default
\* calibration is installed; an error is caught and logged
LoadCalibrationInfo(r) ==
  /\ pc[r] = "cal_info"
  /\ \/ /\ ~IsNull(calFile)
        /\ pc' = [pc EXCEPT ![r] = "cal_read"]
        /\ UNCHANGED calibrationData
     \/ /\ IsNull(calFile)
        /\ calibrationData' = Some(DefaultCalibration)
        /\ pc' = [pc EXCEPT ![r] = "pers_info"]
     \/ /\ pc' = [pc EXCEPT ![r] = "pers_info"]
        /\ UNCHANGED calibrationData
  /\ UNCHANGED <<isInitialized, models, personalityProfile, files, saves, now, locals, caller, home>>

\* loadCalibrationData(): readAsStringAsync answers and the text is parsed;
\* an error is caught and logged
LoadCalibrationRead(r) ==
  /\ pc[r] = "cal_read"
  /\ \/ calibrationData' = Some(ParseCalibration(Val(calFile)))
     \/ UNCHANGED calibrationData
  /\ pc' = [pc EXCEPT ![r] = "pers_info"]
  /\ UNCHANGED <<isInitialized, models, personalityProfile, files, saves, now, locals, caller, home>>

\* the end of initialize(): isInitialized = true, and detectEmotion goes on
Initialized(r) ==
  /\ isInitialized' = TRUE
  /\ pc' = [pc EXCEPT ![r] = StageAfter(0, inputs[r])]

\* initializePersonalityProfiling(): getInfoAsync answers; without a file the
\* neutral profile is installed; an error is caught and logged
InitPersonalityInfo(r) ==
  /\ pc[r] = "pers_info"
  /\ \/ /\ ~IsNull(persFile)
        /\ pc' = [pc EXCEPT ![r] = "pers_read"]
        /\ UNCHANGED <<personalityProfile, isInitialized, now>>
     \/ /\ IsNull(persFile)
        /\ personalityProfile' = Some(DefaultPersonality(now))
        /\ now' = now + 1
        /\ Initialized(r)
     \/ /\ Initialized(r)
        /\ UNCHANGED <<personalityProfile, now>>
  /\ UNCHANGED <<models, calibrationData, files, saves, locals, caller, home>>

\* initializePersonalityProfiling(): the file is read and parsed
InitPersonalityRead(r) ==
  /\ pc[r] = "pers_read"
  /\ \/ personalityProfile' = Some(ParsePersonality(Val(persFile)))
     \/ UNCHANGED personalityProfile
  /\ Initialized(r)
  /\ UNCHANGED <<models, calibrationData, files, saves, now, locals, caller, home>>

\* what a process* function returns for calibrated probabilities probs
ModalityResult(modality, probs) ==
  [probabilities |-> probs, confidence |-> MaxOf(probs), modality |-> modality]

\* a modality function of detectEmotion returns: the model m answered raw
\* and the result res built from it is pushed
Push(r, k, m, raw, res) ==
  /\ predictions' = [predictions EXCEPT ![r] = (m :> raw) @@ @]
  /\ modalityResults' = [modalityResults EXCEPT ![r] = Append(@, res)]
  /\ pc' = [pc EXCEPT ![r] = StageAfter(k, inputs[r])]
  /\ UNCHANGED error

\* processFacialEmotion / processVoiceEmotion (stage k, bias of modality):
\* the classifier answers and the bias is applied, or a step throws
ProcessCalibrated(r, k, modality) ==
  \/ /\ modality \in models
     /\ ~IsNull(calibrationData)
     /\ \E raw \in ClassifierOutputs(modality) :
          Push(r, k, modality, raw, ModalityResult(modality,
                 applyCalibratedBias(Val(calibrationData), raw, modality)))
  \/ /\ modality \in models
     /\ IsNull(calibrationData)
     /\ Throw(r, "TypeError", modality)
     /\ UNCHANGED <<modalityResults, predictions>>
  \/ /\ Throw(r, "Error", modality)
     /\ UNCHANGED <<modalityResults, predictions>>

\* if (inputs.image) processFacialEmotion(inputs.image, context)
ProcessFacialEmotion(r) ==
  /\ pc[r] = "facial"
  /\ ProcessCalibrated(r, 1, "facial")
  /\ UNCHANGED <<engine, files, saves, now, inputs, feedback, fusedResult, caller, home>>

\* if (inputs.audio) processVoiceEmotion(inputs.audio, context)
ProcessVoiceEmotion(r) ==
  /\ pc[r] = "voice"
  /\ ProcessCalibrated(r, 2, "voice")
  /\ UNCHANGED <<engine, files, saves, now, inputs, feedback, fusedResult, caller, home>>

\* if (inputs.text) processTextSentiment(inputs.text, context)
ProcessTextSentiment(r) ==
  /\ pc[r] = "text"
  /\ \/ /\ "text" \in models
        /\ \E sentiment \in SentimentOutputs :
             Push(r, 3, "text", sentiment,
                  ModalityResult("text", mapSentimentToEmotion(sentiment)))
     \/ /\ Throw(r, "Error", "text")
        /\ UNCHANGED <<modalityResults, predictions>>
  /\ UNCHANGED <<engine, files, saves, now, inputs, feedback, fusedResult, caller, home>>

\* the object fuseEmotions returns for the fusion model's output
FusionResult(personality, results, finalProbabilities) ==
  LET personalityAdjusted == applyPersonalityAdjustment(personality, finalProbabilities)
      confidence == calculateFusionConfidence(results, personalityAdjusted)
      emotionAnalysis == analyzeEmotionHierarchy(personalityAdjusted)
  IN [primaryEmotion |-> emotionAnalysis.primary,
      secondaryEmotions |-> emotionAnalysis.secondary,
      probabilities |-> personalityAdjusted,
      confidence |-> confidence,
      modalityContributions |-> calculateModalityContributions(results)]

\* Fuse that runs the personality evolution step inside fuseEmotions, before
\* the result is built from the profile
Fuse_EvolvesFirst(r, outs) ==
  /\ pc[r] = "fuse"
  /\ "fusion" \in models
  /\ ~IsNull(personalityProfile)
  /\ \E out \in outs :
       LET early == FusionResult(Val(personalityProfile), modalityResults[r], out)
           evolved == updatePersonalityProfile(Val(personalityProfile), early, now)
       IN /\ predictions' = [predictions EXCEPT ![r] = ("fusion" :> out) @@ @]
          /\ personalityProfile' = Some(evolved)
          /\ fusedResult' = [fusedResult EXCEPT ![r] =
                               Some(FusionResult(evolved, modalityResults[r], out))]
  /\ pc' = [pc EXCEPT ![r] = "update"]
  /\ UNCHANGED <<isInitialized, models, calibrationData, files, saves, now, inputs,
                 feedback, modalityResults, error, caller, home>>

\* fuseEmotions(modalityResults, context) returns to detectEmotion, the
\* fusion model having answered one of outs
Fuse(r, outs) ==
  /\ pc[r] = "fuse"
  /\ "fusion" \in models
  /\ ~IsNull(personalityProfile)
  /\ \E out \in outs :
       /\ predictions' = [predictions EXCEPT ![r] = ("fusion" :> out) @@ @]
       /\ fusedResult' = [fusedResult EXCEPT ![r] =
                            Some(FusionResult(Val(personalityProfile),
                                              modalityResults[r], out))]
  /\ pc' = [pc EXCEPT ![r] = "update"]
  /\ UNCHANGED <<engine, files, saves, now, inputs, feedback, modalityResults,
                 error, caller, home>>

\* fuseEmotions(modalityResults, context) returns to detectEmotion
FuseEmotionsReturns(r) ==
  /\ pc[r] = "fuse"
  /\ Fuse(r, FusionOutputs)

\* FuseEmotionsThrows that writes the personality profile before it throws
FuseEmotionsThrows_Writes(r) ==
  /\ pc[r] = "fuse"
  /\ Throw(r, "Error", "fusion")
  /\ personalityProfile' = Some(DefaultPersonality(now))
  /\ UNCHANGED <<isInitialized, models, calibrationData, files, saves, now,
                 inputs, feedback, modalityResults, fusedResult, predictions, caller, home>>

\* fuseEmotions throws (no fusion model, no personality profile to read in
\* prepareFusionInput, or the prediction fails); detectEmotion rethrows
FuseEmotionsThrows(r) ==
  /\ pc[r] = "fuse"
  /\ IF "fusion" \in models /\ IsNull(personalityProfile)
     THEN Throw(r, "TypeError", "fusion")
     ELSE Throw(r, "Error", "fusion")
  /\ UNCHANGED <<engine, files, saves, now, inputs, feedback, modalityResults,
                 fusedResult, predictions, caller, home>>

\* lines 402-408 of detectEmotion, which run without an await in between:
\* updateCalibration(fusedResult, context.feedback), then
\* updatePersonalityProfile(fusedResult, context), then return fusedResult.
\* Each save call takes its JSON snapshot at once; the write completes later.
UpdateProfiles(r) ==
  /\ pc[r] = "update"
  /\ IF HasFeedback(feedback[r]) /\ IsNull(calibrationData)
     THEN \* this.calibrationData.adaptationRate throws a TypeError
          /\ Throw(r, "TypeError", "updateCalibration")
          /\ UNCHANGED <<calibrationData, personalityProfile, saves, now>>
     ELSE LET cal == IF IsNull(feedback[r]) \/ IsNull(calibrationData)
                     THEN calibrationData
                     ELSE Some(updateCalibration(Val(calibrationData), Val(feedback[r])))
              pers == updatePersonalityProfile(Val(personalityProfile),
                                               Val(fusedResult[r]), now)
          IN /\ calibrationData' = cal
             /\ calSave' = [calSave EXCEPT ![r] =
                              IF HasFeedback(feedback[r]) /\ ~IsNull(cal)
                              THEN Some(StringifyCalibration(Val(cal))) ELSE @]
             /\ personalityProfile' = Some(pers)
             /\ persSave' = [persSave EXCEPT ![r] = Some(StringifyPersonality(pers))]
             /\ now' = now + 1
             /\ pc' = [pc EXCEPT ![r] = "done"]
             /\ UNCHANGED error
  /\ UNCHANGED <<isInitialized, models, files, inputs, feedback, modalityResults,
                 fusedResult, predictions, caller, home>>

\* the writeAsStringAsync of request r's saveCalibrationData completes
\* (ok) or fails (the error is caught and logged)
CalibrationWritten(r) ==
  /\ ~IsNull(calSave[r])
  /\ \E ok \in BOOLEAN : calFile' = IF ok THEN calSave[r] ELSE calFile
  /\ calSave' = [calSave EXCEPT ![r] = Null]
  /\ UNCHANGED <<engine, persFile, persSave, now, pc, locals, caller, home>>

\* the writeAsStringAsync of request r's savePersonalityProfile completes or fails
PersonalityWritten(r) ==
  /\ ~IsNull(persSave[r])
  /\ \E ok \in BOOLEAN : persFile' = IF ok THEN persSave[r] ELSE persFile
  /\ persSave' = [persSave EXCEPT ![r] = Null]
  /\ UNCHANGED <<engine, calFile, calSave, now, pc, locals, caller, home>>

\* a step of request r's detectEmotion call
Call(r) ==
  \/ DetectEmotion(r)
  \/ LoadModels(r)
  \/ LoadModelsFails(r)
  \/ LoadCalibrationInfo(r)
  \/ LoadCalibrationRead(r)
  \/ InitPersonalityInfo(r)
  \/ InitPersonalityRead(r)
  \/ ProcessFacialEmotion(r)
  \/ ProcessVoiceEmotion(r)
  \/ ProcessTextSentiment(r)
  \/ FuseEmotionsReturns(r)
  \/ FuseEmotionsThrows(r)
  \/ UpdateProfiles(r)

\* a write that request r started completes
Written(r) ==
  \/ CalibrationWritten(r)
  \/ PersonalityWritten(r)

\* the calls overlap freely
Next == \E r \in Req : Call(r) \/ Written(r)

Spec == Init /\ [][Next]_vars

\* ------------------------------------- the update step of detectEmotion alone
\* every call has fused on a freshly initialized engine and is about to run
\* lines 402-408, with any feedback and any fusion outcome
InitUpdate ==
  /\ isInitialized = TRUE
  /\ models = ModelNames
  /\ calibrationData = Some(DefaultCalibration)
  /\ personalityProfile = Some(DefaultPersonality(0))
  /\ calFile = Null
  /\ persFile = Null
  /\ calSave = [r \in Req |-> Null]
  /\ persSave = [r \in Req |-> Null]
  /\ now = 1
  /\ pc = [r \in Req |-> "update"]
  /\ inputs = [r \in Req |-> {}]
  /\ feedback \in [Req -> FeedbackChoices]
  /\ modalityResults = [r \in Req |-> <<>>]
  /\ \E out \in [Req -> FusionOutputs] :
       /\ predictions = [r \in Req |-> ("fusion" :> out[r])]
       /\ fusedResult = [r \in Req |->
                           Some(FusionResult(DefaultPersonality(0), <<>>, out[r]))]
  /\ error = [r \in Req |-> Null]
  /\ historicalData = <<>>
  /\ insights = Null
  /\ HomeConstructed

\* the calls run their update steps in any order; the writes complete at any time
NextUpdate == \E r \in Req : UpdateProfiles(r) \/ Written(r)

SpecUpdate == InitUpdate /\ [][NextUpdate]_vars

\* ------------------------------------------- one detectEmotion call alone
\* calibration profiles the engine can hold: the default, after two
\* feedbacks "happy", after 950 feedbacks "sad"
CalibrationChoices ==
  {DefaultCalibration,
   [DefaultCalibration EXCEPT !.facialBias[1] = 20],
   [DefaultCalibration EXCEPT !.facialBias[2] = 9500]}
\* personality profiles the engine can hold
TraitChoices == {0, NeutralTrait, One}
PersonalityChoices ==
  {[DefaultPersonality(0) EXCEPT !.extraversion = e, !.neuroticism = n] :
     e \in TraitChoices, n \in TraitChoices}
\* outputs of the fusion model with a positive sum: two that sum to 1, one
\* that sums to 0.5, one that sums to 2, one with equal entries
HalfVec == <<300, 100, 50, 50, 0, 0, 0>>
DoubleVec == <<600, 900, 300, 100, 100, 0, 0>>
TieVec == <<200, 200, 200, 100, 100, 100, 100>>
WideFusionOutputs == {HappyVec, SadVec, HalfVec, DoubleVec, TieVec}
\* the fusion model answers zero for every label
ZeroVec == Zeros(7)
\* the call that is made
First == CHOOSE r \in Req : \A q \in Req : r <= q

\* an initialized engine with any of the profiles; the call First has been
\* made with any inputs
InitPipeline ==
  /\ isInitialized = TRUE
  /\ models = ModelNames
  /\ calibrationData \in {Some(c) : c \in CalibrationChoices}
  /\ personalityProfile \in {Some(p) : p \in PersonalityChoices}
  /\ calFile = Null
  /\ persFile = Null
  /\ calSave = [r \in Req |-> Null]
  /\ persSave = [r \in Req |-> Null]
  /\ now = 1
  /\ \E ins \in SUBSET {"image", "audio", "text"} :
       /\ inputs = [r \in Req |-> IF r = First THEN ins ELSE {}]
       /\ pc = [r \in Req |-> IF r = First THEN StageAfter(0, ins) ELSE "idle"]
  /\ feedback = [r \in Req |-> Null]
  /\ modalityResults = [r \in Req |-> <<>>]
  /\ fusedResult = [r \in Req |-> Null]
  /\ error = [r \in Req |-> Null]
  /\ predictions = [r \in Req |-> <<>>]
  /\ historicalData = <<>>
  /\ insights = Null
  /\ HomeConstructed

\* the modality steps of the call
Process(r) ==
  \/ ProcessFacialEmotion(r)
  \/ ProcessVoiceEmotion(r)
  \/ ProcessTextSentiment(r)

\* the call runs to the end of fuseEmotions
NextPipeline ==
  \/ Process(First)
  \/ Fuse(First, WideFusionOutputs)
  \/ FuseEmotionsThrows(First)

SpecPipeline == InitPipeline /\ [][NextPipeline]_vars

\* the same, with a fusion model that may also answer zero for every label
NextDegenerate ==
  \/ Process(First)
  \/ Fuse(First, WideFusionOutputs \cup {ZeroVec})
  \/ FuseEmotionsThrows(First)

SpecDegenerate == InitPipeline /\ [][NextDegenerate]_vars

\* ------------------------------------------------ the insight functions
\* the results a caller keeps in its history and passes as the current one
PastResults ==
  {[primaryEmotion |-> [emotion |-> "happy", probability |-> 600],
    confidence |-> [overall |-> 900]],
   [primaryEmotion |-> [emotion |-> "sad", probability |-> 600],
    confidence |-> [overall |-> 500]]}
\* the histories a caller passes
HistoryChoices == UNION {[1..n -> PastResults] : n \in 0..MaxHistory}

\* an initialized engine and a caller that holds any history
InitInsights ==
  /\ isInitialized = TRUE
  /\ models = ModelNames
  /\ calibrationData = Some(DefaultCalibration)
  /\ personalityProfile = Some(DefaultPersonality(0))
  /\ calFile = Null
  /\ persFile = Null
  /\ calSave = [r \in Req |-> Null]
  /\ persSave = [r \in Req |-> Null]
  /\ now = 1
  /\ pc = [r \in Req |-> "idle"]
  /\ inputs = [r \in Req |-> {}]
  /\ feedback = [r \in Req |-> Null]
  /\ modalityResults = [r \in Req |-> <<>>]
  /\ fusedResult = [r \in Req |-> Null]
  /\ error = [r \in Req |-> Null]
  /\ predictions = [r \in Req |-> <<>>]
  /\ historicalData \in HistoryChoices
  /\ insights = Null
  /\ HomeConstructed

\* the caller's call of function call on result (Null for none) ended as outcome
Ended(call, result, outcome) ==
  Some([call |-> call, result |-> result, threw |-> outcome.threw,
        at |-> outcome.at, value |-> outcome.value])

\* the caller calls getEmotionInsights(result, historicalData)
GetEmotionInsights ==
  /\ \E result \in PastResults :
       insights' = Ended("getEmotionInsights", Some(result),
                         getEmotionInsights(result, historicalData))
  /\ UNCHANGED <<engine, files, saves, now, pc, locals, historicalData, home>>

\* the caller calls assessWellness(result, historicalData)
AssessWellness ==
  /\ \E result \in PastResults :
       insights' = Ended("assessWellness", Some(result),
                         assessWellness(result, historicalData))
  /\ UNCHANGED <<engine, files, saves, now, pc, locals, historicalData, home>>

\* the caller calls analyzeTrends(historicalData)
AnalyzeTrends ==
  /\ insights' = Ended("analyzeTrends", Null, analyzeTrends(historicalData))
  /\ UNCHANGED <<engine, files, saves, now, pc, locals, historicalData, home>>

NextInsights == GetEmotionInsights \/ AssessWellness \/ AnalyzeTrends

SpecInsights == InitInsights /\ [][NextInsights]_vars

\* ------------------------------------------------------- context encoding

\* this.contextualFactors.activity
Activities ==
  <<"working", "relaxing", "exercising", "commuting", "socializing", "sleeping">>

\* Array(20).fill(0)
ContextSlots == 20

\* a JavaScript condition on an optional string: undefined and "" are falsy
Truthy(x) == ~IsNull(x) /\ Val(x) # ""

\* encodeContext without the activityIndex !== -1 test: an unknown activity
\* writes slot 4 + (-1), the work slot
encodeContext_NoIndexTest(context, hour, dayOfWeek) ==
  LET activityIndex ==
        IF Truthy(context.activity)
        THEN IndexOf(Activities, Val(context.activity)) - 1 ELSE -2
  IN [k \in 1..ContextSlots |->
        IF k = 1 THEN (hour * One) \div 24
        ELSE IF k = 2 THEN (dayOfWeek * One) \div 7
        ELSE IF k = 5 + activityIndex THEN One
        ELSE IF k = 3 /\ Truthy(context.location) /\ Val(context.location) = "home"
             THEN One
        ELSE IF k = 4 /\ Truthy(context.location) /\ Val(context.location) = "work"
             THEN One
        ELSE 0]

\* encodeContext(context) at local time hour on day dayOfWeek; entry k of the
\* result is the code's encoded[k - 1]
encodeContext(context, hour, dayOfWeek) ==
  LET activityIndex ==
        IF Truthy(context.activity)
        THEN IndexOf(Activities, Val(context.activity)) - 1 ELSE -1
  IN [k \in 1..ContextSlots |->
        IF k = 1 THEN (hour * One) \div 24
        ELSE IF k = 2 THEN (dayOfWeek * One) \div 7
        ELSE IF k = 3 /\ Truthy(context.location) /\ Val(context.location) = "home"
             THEN One
        ELSE IF k = 4 /\ Truthy(context.location) /\ Val(context.location) = "work"
             THEN One
        ELSE IF activityIndex # -1 /\ k = 5 + activityIndex THEN One
        ELSE 0]

\* the locations and activities a caller passes: none, the empty string,
\* the known ones and an unknown one
LocationChoices == {Null, Some(""), Some("home"), Some("work"), Some("gym")}
ActivityChoices ==
  {Null, Some(""), Some("flying")} \cup {Some(Activities[k]) : k \in 1..Len(Activities)}
ContextChoices == [location : LocationChoices, activity : ActivityChoices]
\* the local times of a call: midnight, noon and the last hour of a day, on
\* a Sunday, a Wednesday and a Saturday (getHours is 0..23, getDay is 0..6)
HourChoices == {0, 12, 23}
DayChoices == {0, 3, 6}

\* a fresh engine and a caller that has not called yet
InitContext ==
  /\ isInitialized = FALSE
  /\ models = {}
  /\ calibrationData = Null
  /\ personalityProfile = Null
  /\ calFile = Null
  /\ persFile = Null
  /\ calSave = [r \in Req |-> Null]
  /\ persSave = [r \in Req |-> Null]
  /\ now = 0
  /\ pc = [r \in Req |-> "idle"]
  /\ inputs = [r \in Req |-> {}]
  /\ feedback = [r \in Req |-> Null]
  /\ modalityResults = [r \in Req |-> <<>>]
  /\ fusedResult = [r \in Req |-> Null]
  /\ error = [r \in Req |-> Null]
  /\ predictions = [r \in Req |-> <<>>]
  /\ historicalData = <<>>
  /\ insights = Null
  /\ HomeConstructed

\* the caller calls encodeContext(context); new Date() gives hour and day
EncodeContext ==
  /\ \E context \in ContextChoices, hour \in HourChoices, dayOfWeek \in DayChoices :
       insights' = Ended("encodeContext", Some(context),
                         Returned(Some(encodeContext(context, hour, dayOfWeek))))
  /\ UNCHANGED <<engine, files, saves, now, pc, locals, historicalData, home>>

NextContext == EncodeContext

SpecContext == InitContext /\ [][NextContext]_vars

\* ----------------------------------------------------- SmartHomeService
\* One handler of the service is one step: the device calls that a handler
\* awaits are taken together, and the bridge either answers all of them
\* (ok) or none. Only lighting devices of the Philips Hue platform are
\* discovered, and of a device's state only the brightness is kept.

\* this.moodEnvironments: the lighting brightness of each mood
moodEnvironments ==
  [happy |-> 85, sad |-> 30, angry |-> 60, calm |-> 40, energetic |-> 95,
   romantic |-> 25, focused |-> 70]

\* names that every object literal inherits from Object.prototype
InheritedKeys == {"constructor", "toString", "hasOwnProperty"}

\* this.moodEnvironments[mood]: the environment of an own key, the inherited
\* member (which has no lighting, climate or music) of an inherited key,
\* undefined otherwise and for an undefined mood
Lookup(mood) ==
  IF IsNull(mood) THEN Null
  ELSE IF Val(mood) \in DOMAIN moodEnvironments
       THEN Some([brightness |-> Some(moodEnvironments[Val(mood)])])
  ELSE IF Val(mood) \in InheritedKeys THEN Some([brightness |-> Null])
  ELSE Null

\* Math.round of a non-negative quotient a / b
Round(a, b) == (2 * a + b) \div (2 * b)

\* adjustConfigForIntensity(config, intensity): the brightness, if defined
adjustConfigForIntensity(brightness, intensity) ==
  IF IsNull(brightness) THEN Null
  ELSE Some(Round(Val(brightness) * intensity, One))

\* controlHueLight(device, config): the bri that is sent and, the bridge
\* having answered, kept as the device's state
controlHueLight(brightness) ==
  IF IsNull(brightness) THEN NaN ELSE Round(Val(brightness) * 254, 100)

\* "HH:MM" as its digits (the colon, equal in all, is left out)
TimeString(h, m) == <<h \div 10, h % 10, m \div 10, m % 10>>

\* a <= b on strings: the comparison by code units
RECURSIVE StringLeq(_, _)
StringLeq(a, b) ==
  IF Len(a) = 0 THEN TRUE
  ELSE IF Len(b) = 0 THEN FALSE
  ELSE IF a[1] # b[1] THEN a[1] < b[1]
  ELSE StringLeq(Tail(a), Tail(b))

\* loadAutomations(): the two default automations
DefaultAutomations ==
  <<[id |-> "mood_sync_auto", trigger |-> "mood_detected", enabled |-> TRUE,
     conditions |->
       <<[type |-> "confidence", operator |-> ">", value |-> <<700>>],
         [type |-> "time", operator |-> "between",
          value |-> <<TimeString(8, 0), TimeString(22, 0)>>]>>,
     actions |->
       <<[type |-> "apply_mood_environment", mood |-> Null,
          intensity |-> 800, brightness |-> Null]>>],
    [id |-> "sleep_mode", trigger |-> "time", enabled |-> TRUE,
     conditions |->
       <<[type |-> "time", operator |-> "=", value |-> <<TimeString(22, 30)>>]>>,
     actions |->
       <<[type |-> "apply_mood_environment", mood |-> Some("calm"),
          intensity |-> 300, brightness |-> Null],
         [type |-> "set_all_lights", mood |-> Null, intensity |-> 0,
          brightness |-> Some(10)]>>]>>

\* evaluateNumericCondition(value, operator, target)
evaluateNumericCondition(value, operator, target) ==
  CASE operator = ">" -> value > target
    [] operator = "<" -> value < target
    [] operator = ">=" -> value >= target
    [] operator = "<=" -> value <= target
    [] operator = "=" -> value = target
    [] operator = "!=" -> value # target
    [] OTHER -> FALSE

\* evaluateTimeCondition(currentTime, operator, target)
evaluateTimeCondition(currentTime, operator, target) ==
  CASE operator = "=" -> currentTime = target[1]
    [] operator = "between" ->
         StringLeq(target[1], currentTime) /\ StringLeq(currentTime, target[2])
    [] OTHER -> FALSE

\* one condition of evaluateConditions; clock is
\* new Date().toTimeString().slice(0, 5)
evaluateCondition(condition, data, clock) ==
  CASE condition.type = "confidence" ->
         evaluateNumericCondition(
           IF IsNull(data.confidence) THEN 0 ELSE Val(data.confidence),
           condition.operator, condition.value[1])
    [] condition.type = "time" ->
         evaluateTimeCondition(
           IF IsNull(data.time) THEN clock ELSE Val(data.time),
           condition.operator, condition.value)
    [] condition.type = "mood" ->
         IF condition.operator = "="
         THEN data.mood = Some(condition.value[1])
         ELSE data.mood # Some(condition.value[1])
    [] OTHER -> TRUE

\* evaluateConditions(conditions, data): conditions.every(...)
evaluateConditions(conditions, data, clock) ==
  \A k \in 1..Len(conditions) : evaluateCondition(conditions[k], data, clock)

\* what a handler has done so far: the maps as it found them and as it
\* has changed them, its calls of applyMoodEnvironment, the automations and
\* actions it executed, the events it emitted, what it threw
Started(handler, data, clock) ==
  [handler |-> handler, data |-> data, clock |-> clock,
   before |-> [devices |-> devices, scenes |-> scenes],
   devices |-> devices, scenes |-> scenes, calls |-> <<>>, executed |-> <<>>,
   actions |-> <<>>, events |-> <<>>, threw |-> ""]

\* this.emit(name, ...) for the automation id (or "")
Emit(run, name, id) ==
  [run EXCEPT !.events = Append(@, [name |-> name, automationId |-> id])]

\* the lighting devices after each was sent brightness (applyLightingChanges,
\* setAllLights); a call the bridge does not answer throws and is caught
controlLights(devs, brightness, ok) ==
  [d \in DOMAIN devs |-> IF ok THEN controlHueLight(brightness) ELSE devs[d]]

\* applyMoodEnvironment(mood, intensity): throws before any effect on a
\* service that is not initialized or for a mood that the lookup does not
\* find; else changes the lights, creates the scene, emits environmentApplied
applyMoodEnvironment(run, mood, intensity, ok) ==
  LET called == [run EXCEPT !.calls = Append(@, [mood |-> mood, intensity |-> intensity])]
      environment == Lookup(mood)
  IN IF ~homeInitialized
     THEN [called EXCEPT !.threw = "SmartHomeService not initialized"]
     ELSE IF IsNull(environment)
     THEN [called EXCEPT !.threw = "Unknown mood"]
     ELSE LET adjusted == adjustConfigForIntensity(Val(environment).brightness,
                                                   intensity)
              applied ==
                [called EXCEPT
                   !.devices = controlLights(@, adjusted, ok),
                   !.scenes = Append(@, [mood |-> Val(mood), intensity |-> intensity]),
                   !.threw = ""]
          IN Emit(applied, "environmentApplied", "")

\* one action of executeAutomationActions; what it throws is caught and logged
executeAutomationAction(run, action, data, ok) ==
  LET done == [run EXCEPT !.actions = Append(@, action.type)]
  IN CASE action.type = "apply_mood_environment" ->
            [applyMoodEnvironment(done,
                                  IF IsNull(action.mood) THEN data.mood ELSE action.mood,
                                  IF action.intensity = 0 THEN One ELSE action.intensity,
                                  ok)
               EXCEPT !.threw = ""]
       [] action.type = "set_all_lights" ->
            [done EXCEPT !.devices = controlLights(@, action.brightness, ok)]
       [] OTHER -> done

\* executeAutomationActions(actions, data), from action k on
RECURSIVE executeAutomationActions(_, _, _, _, _)
executeAutomationActions(run, actions, data, ok, k) ==
  IF k > Len(actions) THEN run
  ELSE executeAutomationActions(executeAutomationAction(run, actions[k], data, ok),
                                actions, data, ok, k + 1)

\* processAutomationTriggers that leaves out the test of the conditions
RECURSIVE processAutomationTriggers_Unconditional(_, _, _, _, _)
processAutomationTriggers_Unconditional(run, triggerType, data, ok, k) ==
  IF k > Len(automations) THEN run
  ELSE LET automation == automations[k]
           next ==
             IF automation.enabled /\ automation.trigger = triggerType
             THEN Emit([executeAutomationActions(run, automation.actions, data, ok, 1)
                          EXCEPT !.executed = Append(@, automation.id)],
                       "automationExecuted", automation.id)
             ELSE run
       IN processAutomationTriggers_Unconditional(next, triggerType, data, ok, k + 1)

\* processAutomationTriggers(triggerType, data), from automation k on: the
\* enabled automations of the trigger type whose conditions hold execute
\* their actions and emit automationExecuted
RECURSIVE processAutomationTriggers(_, _, _, _, _)
processAutomationTriggers(run, triggerType, data, ok, k) ==
  IF k > Len(automations) THEN run
  ELSE LET automation == automations[k]
           next ==
             IF /\ automation.enabled /\ automation.trigger = triggerType
                /\ evaluateConditions(automation.conditions, data, run.clock)
             THEN Emit([executeAutomationActions(run, automation.actions, data, ok, 1)
                          EXCEPT !.executed = Append(@, automation.id)],
                       "automationExecuted", automation.id)
             ELSE run
       IN processAutomationTriggers(next, triggerType, data, ok, k + 1)

\* Most scenes that the service is let to create.
MaxScenes == 2

\* the devices that discovery finds: none, or one Hue light at full brightness
DeviceChoices == {<<>>, [hue_1 |-> 254]}
\* the moods a caller asks for: mapped ones, one that is not a key at all
\* and one that is an inherited key
MoodChoices == {"happy", "calm", "neutral", "constructor"}
\* the times of day at which handlers run
ClockChoices ==
  {TimeString(7, 59), TimeString(8, 0), TimeString(22, 0), TimeString(22, 30)}
\* the payloads of moodDetected events
MoodDataChoices ==
  [mood : {Some("happy"), Some("neutral")},
   confidence : {Null, Some(700), Some(900)},
   time : {Null, Some(TimeString(12, 0))}]

\* the handler's result becomes the state of the service
Finish(run) ==
  /\ devices' = run.devices
  /\ scenes' = run.scenes
  /\ lastRun' = Some(run)

\* initialize() up to the end of discoverDevices()
DiscoverDevices ==
  /\ stage = "new"
  /\ stage' = "discovered"
  /\ devices' \in DeviceChoices
  /\ UNCHANGED <<homeInitialized, scenes, automations, listeners, intervals, lastRun>>
  /\ UNCHANGED <<engine, files, saves, now, pc, locals, caller>>

\* the rest of initialize(): loadAutomations(), setupAutomationTriggers(),
\* isInitialized = true, emit('initialized')
InitializeAutomations ==
  /\ stage = "discovered"
  /\ stage' = "ready"
  /\ automations' = DefaultAutomations
  /\ listeners' = listeners \cup {"moodDetected"}
  /\ intervals' = intervals + 1
  /\ homeInitialized' = TRUE
  /\ lastRun' = Some(Emit(Started("initialize", Null, <<>>), "initialized", ""))
  /\ UNCHANGED <<devices, scenes>>
  /\ UNCHANGED <<engine, files, saves, now, pc, locals, caller>>

\* dispose(): the open sockets are closed and removeAllListeners() is
\* called; the interval of setupAutomationTriggers is not cleared
Dispose ==
  /\ stage = "ready"
  /\ stage' = "disposed"
  /\ listeners' = {}
  /\ lastRun' = Some(Started("dispose", Null, <<>>))
  /\ UNCHANGED <<homeInitialized, devices, scenes, automations, intervals>>
  /\ UNCHANGED <<engine, files, saves, now, pc, locals, caller>>

\* a caller calls applyMoodEnvironment(mood)
ApplyMoodEnvironment ==
  /\ Len(scenes) < MaxScenes
  /\ \E mood \in MoodChoices, clock \in ClockChoices, ok \in BOOLEAN :
       Finish(applyMoodEnvironment(Started("applyMoodEnvironment", Some(mood), clock),
                                   Some(mood), One, ok))
  /\ UNCHANGED <<homeInitialized, automations, listeners, intervals, stage>>
  /\ UNCHANGED <<engine, files, saves, now, pc, locals, caller>>

\* emit('moodDetected', moodData): the listener of setupAutomationTriggers,
\* if it is registered, calls processAutomationTriggers
MoodDetected ==
  /\ Len(scenes) < MaxScenes
  /\ \E moodData \in MoodDataChoices, clock \in ClockChoices, ok \in BOOLEAN :
       LET run == Started("moodDetected", Some(moodData), clock)
       IN Finish(IF "moodDetected" \in listeners
                 THEN processAutomationTriggers(run, "mood_detected", moodData, ok, 1)
                 ELSE run)
  /\ UNCHANGED <<homeInitialized, automations, listeners, intervals, stage>>
  /\ UNCHANGED <<engine, files, saves, now, pc, locals, caller>>

\* the interval of setupAutomationTriggers fires
IntervalFires ==
  /\ intervals > 0
  /\ Len(scenes) < MaxScenes
  /\ \E clock \in ClockChoices, ok \in BOOLEAN :
       LET data == [mood |-> Null, confidence |-> Null, time |-> Some(clock)]
       IN Finish(processAutomationTriggers(Started("interval", Some(data), clock),
                                           "time", data, ok, 1))
  /\ UNCHANGED <<homeInitialized, automations, listeners, intervals, stage>>
  /\ UNCHANGED <<engine, files, saves, now, pc, locals, caller>>

NextHome ==
  \/ DiscoverDevices
  \/ InitializeAutomations
  \/ Dispose
  \/ ApplyMoodEnvironment
  \/ MoodDetected
  \/ IntervalFires

SpecHome == InitContext /\ [][NextHome]_vars

\* ------------------------------------------------------------------ claims
\* the modalities, as the steps that throw are named
Modalities == {"facial", "voice", "text"}
\* request r's feedback names a label of the primary label set
Recognized(r) ==
  /\ ~IsNull(feedback[r])
  /\ IndexOf(Primary, Val(feedback[r]).correctEmotion) # 0
\* request r's feedback names a label outside the primary label set
Unrecognized(r) ==
  /\ ~IsNull(feedback[r])
  /\ IndexOf(Primary, Val(feedback[r]).correctEmotion) = 0
\* request r has been called
Called(r) == pc[r] # "idle"

\* C1: a detectEmotion call with zero observations (no image, audio or text)
\* fails with InsufficientInputError and returns no FusionResult.
C1_ZeroObservationsFail ==
  \A r \in Req :
    (Called(r) /\ inputs[r] = {}) =>
      /\ IsNull(fusedResult[r])
      /\ pc[r] # "done"

\* C2: a modality that fails is dropped; the request fails on a modality's
\* error only when no observation remains.
C2_FailedModalityDropped ==
  \A r \in Req :
    (pc[r] = "failed" /\ Val(error[r]).at \in Modalities) =>
      Len(modalityResults[r]) = 0

\* every request has returned or thrown
AllReturned == \A r \in Req : pc[r] \in {"done", "failed"}
\* the requests that completed and whose feedback named label i
FedBack(i) ==
  {r \in Req : pc[r] = "done" /\ Recognized(r)
                 /\ IndexOf(Primary, Val(feedback[r]).correctEmotion) = i}
\* the requests that completed with a primary label in labels
Evolved(labels) ==
  {r \in Req : pc[r] = "done" /\ Val(fusedResult[r]).primaryEmotion.emotion \in labels}

\* C3: no profile update is lost: when all requests have returned, the
\* profile holds every bias increment and every evolution step that a
\* completed request applied.
C3_NoLostUpdate ==
  (AllReturned /\ \E r \in Req : pc[r] = "done") =>
    /\ \A i \in 1..NumLabels :
         (IF IsNull(calibrationData) THEN 0 ELSE Val(calibrationData).facialBias[i]) =
           Cardinality(FedBack(i)) * ((DefaultAdaptationRate * 100) \div One)
    /\ ~IsNull(personalityProfile)
    /\ Val(personalityProfile).extraversion =
         Min(One, NeutralTrait + 10 * Cardinality(Evolved({"happy", "excited"})))
    /\ Val(personalityProfile).neuroticism =
         Min(One, NeutralTrait + 10 * Cardinality(Evolved({"sad", "angry", "fearful"})))

\* the steps that process a modality or fuse
ProcessingSteps == Modalities \cup {"fusion"}

EvolveLabels == {Primary[i] : i \in 1..NumLabels} \cup {"excited"}

\* an initialized engine with the neutral profile
InitEvolve ==
  /\ isInitialized = TRUE
  /\ models = ModelNames
  /\ calibrationData = Some(DefaultCalibration)
  /\ personalityProfile = Some(DefaultPersonality(0))
  /\ calFile = Null
  /\ persFile = Null
  /\ calSave = [r \in Req |-> Null]
  /\ persSave = [r \in Req |-> Null]
  /\ now = 0
  /\ pc = [r \in Req |-> "idle"]
  /\ inputs = [r \in Req |-> {}]
  /\ feedback = [r \in Req |-> Null]
  /\ modalityResults = [r \in Req |-> <<>>]
  /\ fusedResult = [r \in Req |-> Null]
  /\ error = [r \in Req |-> Null]
  /\ predictions = [r \in Req |-> <<>>]
  /\ historicalData = <<>>
  /\ insights = Null
  /\ HomeConstructed

\* updatePersonalityProfile(result, context) for a result with primary
\* label l, which the caller First holds
Evolve ==
  /\ \E l \in EvolveLabels :
       LET result == [primaryEmotion |-> [emotion |-> l, probability |-> One]]
       IN /\ fusedResult' = [fusedResult EXCEPT ![First] = Some(result)]
          /\ personalityProfile' =
               Some(updatePersonalityProfile(Val(personalityProfile), result, now))
  /\ UNCHANGED <<isInitialized, models, calibrationData, files, saves, now, pc,
                 inputs, feedback, modalityResults, error, predictions, caller, home>>

SpecEvolve == InitEvolve /\ [][Evolve]_vars

\* trait value x is within [0,1]
InUnit(x) == 0 <= x /\ x <= One

\* C5: after any number of evolution steps, for any sequence of primary
\* labels, each of the five traits is within [0,1].
C5_TraitsWithinUnit ==
  ~IsNull(personalityProfile) =>
    LET p == Val(personalityProfile)
    IN /\ InUnit(p.openness)
       /\ InUnit(p.conscientiousness)
       /\ InUnit(p.extraversion)
       /\ InUnit(p.agreeableness)
       /\ InUnit(p.neuroticism)

\* C5 witness: both drifting traits have reached 1, where the clamp acts.
C5_Witness ==
  /\ ~IsNull(personalityProfile)
  /\ Val(personalityProfile).extraversion = One
  /\ Val(personalityProfile).neuroticism = One

\* the step in which request r runs lines 402-408 to the return
Updates(r) == pc[r] = "update" /\ pc'[r] = "done"

\* C6: a feedback that names a recognized label raises facialBias at the
\* label's index by exactly adaptationRate * 0.1, a positive amount that is
\* the same at every call, and no feedback lowers a bias entry.
C6_FeedbackIncrement ==
  [][\A r \in Req :
       (Updates(r) /\ ~IsNull(feedback[r])) =>
         LET old == Val(calibrationData)
             new == Val(calibrationData')
             i == IndexOf(Primary, Val(feedback[r]).correctEmotion)
         IN /\ i # 0 =>
                 /\ new.facialBias[i] - old.facialBias[i] = (old.adaptationRate * 100) \div One
                 /\ new.facialBias[i] > old.facialBias[i]
                 /\ new.adaptationRate = old.adaptationRate
            /\ \A j \in 1..NumLabels :
                 /\ new.facialBias[j] >= old.facialBias[j]
                 /\ new.voiceBias[j] >= old.voiceBias[j]]_vars

\* C6 witness: two requests with the same recognized feedback have both
\* completed and the entry holds twice the increment.
C6_Witness ==
  \E r, q \in Req :
    /\ r # q
    /\ pc[r] = "done" /\ pc[q] = "done"
    /\ Recognized(r)
    /\ feedback[q] = feedback[r]
    /\ ~IsNull(calibrationData)
    /\ Val(calibrationData).facialBias[IndexOf(Primary, Val(feedback[r]).correctEmotion)] = 20

\* the bias vector of modality m in calibration object cal
BiasVector(cal, m) == IF m = "facial" THEN cal.facialBias ELSE cal.voiceBias

\* calibration object new differs from old at most at entry i of modality m's bias
OnlyEntryChanged(old, new, m, i) ==
  /\ new.adaptationRate = old.adaptationRate
  /\ new.personalityFactors = old.personalityFactors
  /\ \A k \in {"facial", "voice"}, j \in 1..NumLabels :
       (k # m \/ j # i) => BiasVector(new, k)[j] = BiasVector(old, k)[j]

\* C7: a feedback update for (modality, correct label) changes the profile
\* only at bias[modality][correctLabelIndex], also after the profile is saved
\* and loaded again.
C7_FeedbackChangesOnlyItsEntry ==
  [][\A r \in Req :
       (Updates(r) /\ Recognized(r)) =>
         LET old == Val(calibrationData)
             fb == Val(feedback[r])
             i == IndexOf(Primary, fb.correctEmotion)
         IN /\ OnlyEntryChanged(old, Val(calibrationData'), fb.modality, i)
            /\ ~IsNull(calSave'[r])
            /\ OnlyEntryChanged(old, ParseCalibration(Val(calSave'[r])), fb.modality, i)]_vars

\* C8: feedback whose label is not in the label set is rejected with
\* UnknownLabelError: a request that carries it does not complete without
\* an error.
C8_UnknownLabelRejected ==
  \A r \in Req :
    Unrecognized(r) => ~(pc[r] = "done" /\ IsNull(error[r]))

\* C9: feedback whose label is not in the label set leaves the calibration
\* profile as it was (every bias entry and adaptationRate).
C9_UnknownLabelLeavesCalibration ==
  [][\A r \in Req :
       (Updates(r) /\ Unrecognized(r)) => calibrationData' = calibrationData]_vars

\* C9 witness: a request with an unrecognized feedback label has completed
\* on a profile that holds an earlier increment.
C9_Witness ==
  \E r \in Req :
    /\ pc[r] = "done"
    /\ Unrecognized(r)
    /\ ~IsNull(calibrationData)
    /\ Val(calibrationData).facialBias[1] > 0

\* C10: a request without feedback leaves the calibration profile as it was,
\* starts no calibration save and raises no error at the update.
C10_NoFeedbackNoOp ==
  [][\A r \in Req :
       (pc[r] = "update" /\ pc'[r] # "update" /\ IsNull(feedback[r])) =>
         /\ calibrationData' = calibrationData
         /\ calSave' = calSave
         /\ calFile' = calFile
         /\ pc'[r] = "done"
         /\ IsNull(error'[r])]_vars

\* C10 witness: a request without feedback has completed.
C10_Witness ==
  \E r \in Req :
    /\ pc[r] = "done"
    /\ IsNull(feedback[r])
    /\ IsNull(calSave[r])

\* the fusion model answered request r
Predicted(r) == "fusion" \in DOMAIN predictions[r]
\* what the fusion model answered
FinalProbabilities(r) == predictions[r]["fusion"]

\* C11: the probability vector of a returned FusionResult has no negative
\* entry and sums to 1 (within the rounding of the NumLabels divisions),
\* also when the fusion model's output does not sum to 1.
C11_ResultIsDistribution ==
  \A r \in Req :
    ~IsNull(fusedResult[r]) =>
      LET v == Val(fusedResult[r]).probabilities
      IN /\ \A i \in 1..Len(v) : v[i] >= 0
         /\ SumOf(v) <= One
         /\ SumOf(v) > One - NumLabels

\* C11 witness: a result was returned for a fusion output that sums to 2.
C11_Witness ==
  \E r \in Req :
    /\ ~IsNull(fusedResult[r])
    /\ SumOf(FinalProbabilities(r)) = 2 * One

\* C12: when the adjusted vector sums to zero (the fusion model answered
\* zero for every label), the call fails and returns no result.
C12_DegenerateFails ==
  \A r \in Req :
    (Predicted(r) /\ SumOf(FinalProbabilities(r)) = 0) =>
      /\ IsNull(fusedResult[r])
      /\ pc[r] = "failed"

\* the vector the model of observation k of request r gave, before any bias
\* (for text: the emotion vector mapped from the sentiment, which has no bias)
RawProbabilities(r, k) ==
  LET m == modalityResults[r][k].modality
  IN IF m = "text" THEN mapSentimentToEmotion(predictions[r][m]) ELSE predictions[r][m]
\* the unordered pairs of observations of request r
Pairs(r) ==
  {p \in (1..Len(modalityResults[r])) \X (1..Len(modalityResults[r])) : p[1] < p[2]}
\* the first label of maximal value in v
FirstMax(v) ==
  CHOOSE i \in 1..Len(v) :
    /\ \A j \in 1..Len(v) : v[j] <= v[i]
    /\ \A j \in 1..(i - 1) : v[j] < v[i]
\* matching pairs over pairs, 1.0 below two observations, when observation
\* k votes for label vote[k]
PairAgreement(r, vote) ==
  IF Len(modalityResults[r]) < 2 THEN One
  ELSE (Cardinality({p \in Pairs(r) : vote[p[1]] = vote[p[2]]}) * One)
         \div Cardinality(Pairs(r))

\* C13 as claimed: the agreement of a result is 1.0 below two observations
\* and else the share of observation pairs whose raw vectors have the same
\* argmax.
C13_AgreementOnRaw ==
  \A r \in Req :
    ~IsNull(fusedResult[r]) =>
      Val(fusedResult[r]).confidence.agreement =
        PairAgreement(r, [k \in 1..Len(modalityResults[r]) |->
                            FirstMax(RawProbabilities(r, k))])

\* C13 amended: the agreement of a result is 1.0 below two observations and
\* else the share of observation pairs whose calibrated probabilities (the
\* vectors the observations carry) have the same argmax.
C13_AgreementOnCalibrated ==
  \A r \in Req :
    ~IsNull(fusedResult[r]) =>
      Val(fusedResult[r]).confidence.agreement =
        PairAgreement(r, [k \in 1..Len(modalityResults[r]) |->
                            FirstMax(modalityResults[r][k].probabilities)])

\* C13 witness: three observations of which one pair agrees (agreement 1/3),
\* the facial one voting against its raw vector.
C13_Witness ==
  \E r \in Req :
    /\ ~IsNull(fusedResult[r])
    /\ Len(modalityResults[r]) = 3
    /\ Val(fusedResult[r]).confidence.agreement = One \div 3
    /\ FirstMax(modalityResults[r][1].probabilities) # FirstMax(RawProbabilities(r, 1))

\* the confidences of the observations of request r
Confidences(r) ==
  [k \in 1..Len(modalityResults[r]) |-> modalityResults[r][k].confidence]

\* C14: for a non-empty list of observations, modalityContributions gives
\* each observation's modality the weight confidence / (sum of the
\* confidences), and the weights sum to 1 (within the rounding of the divisions).
C14_ContributionsAreShares ==
  \A r \in Req :
    (~IsNull(fusedResult[r]) /\ Len(modalityResults[r]) > 0) =>
      LET c == Val(fusedResult[r]).modalityContributions
          n == Len(modalityResults[r])
          weights == [k \in 1..n |-> c[modalityResults[r][k].modality]]
      IN /\ DOMAIN c = {modalityResults[r][k].modality : k \in 1..n}
         /\ \A k \in 1..n :
              weights[k] = (Confidences(r)[k] * One) \div SumOf(Confidences(r))
         /\ SumOf(weights) <= One
         /\ SumOf(weights) > One - n

\* C14 witness: a result for three observations with three different weights.
C14_Witness ==
  \E r \in Req :
    /\ ~IsNull(fusedResult[r])
    /\ Len(modalityResults[r]) = 3
    /\ LET c == Val(fusedResult[r]).modalityContributions
       IN c["facial"] # c["voice"] /\ c["voice"] # c["text"] /\ c["facial"] # c["text"]

\* C15: in every FusionResult the primary emotion is a label of maximal
\* probability and secondaryEmotions are the next two labels by probability:
\* primary >= first secondary >= second secondary >= every remaining label.
C15_HierarchyOrdered ==
  \A r \in Req :
    ~IsNull(fusedResult[r]) =>
      LET f == Val(fusedResult[r])
          v == f.probabilities
          top == <<f.primaryEmotion>> \o f.secondaryEmotions
          at == [k \in 1..Len(top) |-> IndexOf(Primary, top[k].emotion)]
      IN /\ Len(f.secondaryEmotions) = 2
         /\ \A k \in 1..3 : at[k] # 0 /\ top[k].probability = v[at[k]]
         /\ at[1] # at[2] /\ at[2] # at[3] /\ at[1] # at[3]
         /\ top[1].probability >= top[2].probability
         /\ top[2].probability >= top[3].probability
         /\ \A i \in 1..Len(v) :
              i \notin {at[1], at[2], at[3]} => v[i] <= top[3].probability

\* C15 witness: a result whose order differs from the order of the fusion
\* model's output (the adjustment moved the maximum) and whose second
\* secondary is strictly above the remaining labels.
C15_Witness ==
  \E r \in Req :
    /\ ~IsNull(fusedResult[r])
    /\ LET f == Val(fusedResult[r])
       IN /\ IndexOf(Primary, f.primaryEmotion.emotion) # FirstMax(FinalProbabilities(r))
          /\ f.primaryEmotion.probability > f.secondaryEmotions[1].probability
          /\ f.secondaryEmotions[1].probability > f.secondaryEmotions[2].probability

\* the caller's last call was of function call
Asked(call) == ~IsNull(insights) /\ Val(insights).call = call
\* the positive results among the last five of the history
PositiveCountInLast5 ==
  Cardinality({k \in 1..Len(historicalData) :
                 /\ k > Len(historicalData) - 5
                 /\ historicalData[k].primaryEmotion.emotion
                      \in {"happy", "excited", "content", "calm"}})

\* C16: for every current result and history, assessWellness returns the
\* score (base * overallConfidence + positiveCountInLast5 / 5) / 2 with base
\* 0.7 for a positive current label and 0.3 otherwise, and the level high
\* above 0.7, medium above 0.4, low otherwise.
C16_WellnessScore ==
  Asked("assessWellness") =>
    LET current == Val(Val(insights).result)
        base == IF current.primaryEmotion.emotion
                     \in {"happy", "excited", "content", "calm"}
                THEN 700 ELSE 300
        score == ((base * current.confidence.overall) \div One
                    + (PositiveCountInLast5 * One) \div 5) \div 2
    IN /\ Val(insights).threw = ""
       /\ ~IsNull(Val(insights).value)
       /\ Val(Val(insights).value).score = score
       /\ Val(Val(insights).value).level =
            IF score > 700 THEN "high" ELSE IF score > 400 THEN "medium" ELSE "low"

\* C17: trend fields are withheld only for an empty history: there the
\* insights come without trend fields but with the wellness score; for any
\* other history, a single past result included, they come with trend fields.
C17_TrendsOnlyWithheldWhenEmpty ==
  Asked("getEmotionInsights") =>
    /\ Val(insights).threw = ""
    /\ ~IsNull(Val(insights).value)
    /\ ~IsNull(Val(Val(insights).value).wellness)
    /\ IsNull(Val(Val(insights).value).trends) <=> Len(historicalData) = 0

\* x cut to [0,1]
Clamped(x) == IF x < 0 THEN 0 ELSE IF x > One THEN One ELSE x
\* the modalities whose functions calibrate
Calibrated == {"facial", "voice"}
\* vectors to calibrate for a modality without a bias vector
Uncalibrated == {SadVec, <<One + 200, 0 - 100, 0, 0, 0, 0, 0>>}

\* C18: the calibrated vector of an observation is, label by label,
\* raw + bias[modality] * adaptationRate cut to [0,1]: same length, every
\* entry in [0,1], not renormalized; without a bias vector for the modality
\* it is the raw vector cut to [0,1].
C18_BiasCalibration ==
  ~IsNull(calibrationData) =>
    LET cal == Val(calibrationData)
    IN /\ \A r \in Req : \A k \in 1..Len(modalityResults[r]) :
            LET m == modalityResults[r][k].modality
                v == modalityResults[r][k].probabilities
                raw == predictions[r][m]
            IN m \in Calibrated =>
                 /\ Len(v) = Len(raw)
                 /\ \A i \in 1..Len(v) :
                      /\ v[i] = Clamped(raw[i] + (BiasVector(cal, m)[i] * cal.adaptationRate)
                                                   \div One)
                      /\ 0 <= v[i] /\ v[i] <= One
       /\ \A m \in {"text", "biometric"}, raw \in Uncalibrated :
            applyCalibratedBias(cal, raw, m) = [i \in 1..Len(raw) |-> Clamped(raw[i])]

\* C18 witness: a facial observation with an entry cut to 1 and a sum that
\* is not 1, next to a voice observation left as it was.
C18_Witness ==
  \E r \in Req :
    /\ Len(modalityResults[r]) >= 2
    /\ modalityResults[r][1].modality = "facial"
    /\ modalityResults[r][2].modality = "voice"
    /\ \E i \in 1..NumLabels :
         /\ modalityResults[r][1].probabilities[i] = One
         /\ predictions[r]["facial"][i] < One
    /\ SumOf(modalityResults[r][1].probabilities) # One
    /\ modalityResults[r][2].probabilities = predictions[r]["voice"]

\* the claimed scale factors for profile p, label by label (happy, sad,
\* angry, fearful, surprised, disgusted, neutral)
ClaimedFactors(p) ==
  <<One + (200 * p.extraversion) \div One,
    One + (300 * p.neuroticism) \div One,
    One + (200 * p.neuroticism) \div One,
    One + (400 * p.neuroticism) \div One,
    One, One, One>>

\* C19: the result's probabilities are the fusion output scaled by
\* (1 + 0.2 extraversion) at happy, (1 + 0.3 neuroticism) at sad,
\* (1 + 0.2 neuroticism) at angry, (1 + 0.4 neuroticism) at fearful and by 1
\* elsewhere, then divided by their sum; [0.1,0.6,0.1,0.05,0.05,0.05,0.05]
\* with all traits 0.5 keeps sad the largest entry.
C19_AdjustmentFactors ==
  \A r \in Req :
    ~IsNull(fusedResult[r]) =>
      LET v == Val(fusedResult[r]).probabilities
          raw == FinalProbabilities(r)
          p == Val(personalityProfile)
          scaled == [i \in 1..NumLabels |-> raw[i] * ClaimedFactors(p)[i]]
      IN /\ \A i \in 1..NumLabels : v[i] = (scaled[i] * One) \div SumOf(scaled)
         /\ (raw = <<100, 600, 100, 50, 50, 50, 50>>
               /\ p.extraversion = 500 /\ p.neuroticism = 500) =>
              /\ \A i \in 1..NumLabels : i # 2 => v[i] < v[2]
              /\ Val(fusedResult[r]).primaryEmotion.emotion = "sad"

\* C19 witness: the scenario's result, in which sad has grown and neutral shrunk.
C19_Witness ==
  \E r \in Req :
    /\ ~IsNull(fusedResult[r])
    /\ FinalProbabilities(r) = <<100, 600, 100, 50, 50, 50, 50>>
    /\ Val(personalityProfile).extraversion = 500
    /\ Val(personalityProfile).neuroticism = 500
    /\ Val(fusedResult[r]).probabilities[2] > 600
    /\ Val(fusedResult[r]).probabilities[7] < 50

\* C20: one evolution step adds 0.01, capped at 1, to extraversion and to
\* nothing else for the label happy or excited, to neuroticism and to nothing
\* else for sad, angry or fearful, and changes no trait for any other label;
\* openness, conscientiousness and agreeableness never change.
C20_EvolutionStep ==
  [][LET old == Val(personalityProfile)
         new == Val(personalityProfile')
         label == Val(fusedResult'[First]).primaryEmotion.emotion
         raised(x) == IF x + 10 > One THEN One ELSE x + 10
     IN /\ new.extraversion =
             IF label \in {"happy", "excited"}
             THEN raised(old.extraversion) ELSE old.extraversion
        /\ new.neuroticism =
             IF label \in {"sad", "angry", "fearful"}
             THEN raised(old.neuroticism) ELSE old.neuroticism
        /\ new.openness = old.openness
        /\ new.conscientiousness = old.conscientiousness
        /\ new.agreeableness = old.agreeableness]_vars

\* C20 witness: the last step was for the label excited on a profile whose
\* extraversion is at the cap and whose neuroticism has drifted too.
C20_Witness ==
  /\ ~IsNull(fusedResult[First])
  /\ Val(fusedResult[First]).primaryEmotion.emotion = "excited"
  /\ Val(personalityProfile).extraversion = One
  /\ Val(personalityProfile).neuroticism > NeutralTrait
  /\ Val(personalityProfile).openness = NeutralTrait

\* the five traits of a personality profile
Traits(p) ==
  <<p.openness, p.conscientiousness, p.extraversion, p.agreeableness, p.neuroticism>>

\* C21: along any sequence of evolution steps no trait decreases: every
\* trait's value after a step is at least its value before the step.
C21_MonotoneDrift ==
  [][\A i \in 1..5 :
       Traits(Val(personalityProfile'))[i] >= Traits(Val(personalityProfile))[i]]_vars

\* C21 witness: after steps that raised extraversion, a step for the
\* complementary label sad has been taken and extraversion is still raised.
C21_Witness ==
  /\ ~IsNull(fusedResult[First])
  /\ Val(fusedResult[First]).primaryEmotion.emotion = "sad"
  /\ Val(personalityProfile).extraversion > NeutralTrait
  /\ Val(personalityProfile).neuroticism > NeutralTrait

\* the recent window: the last at most 10 results of the history
Window == {k \in 1..Len(historicalData) : k > Len(historicalData) - 10}
\* the occurrences of label l in the window
Occurrences(l) ==
  Cardinality({k \in Window : historicalData[k].primaryEmotion.emotion = l})
\* the labels of the window
WindowLabels == {historicalData[k].primaryEmotion.emotion : k \in Window}

\* C22: a trend query over a non-empty history returns a dominantEmotion
\* whose number of occurrences in the window (the last at most 10 results)
\* is maximal and a diversity equal to the number of distinct labels there.
C22_TrendFields ==
  (Asked("analyzeTrends") /\ Len(historicalData) > 0) =>
    /\ Val(insights).threw = ""
    /\ ~IsNull(Val(insights).value)
    /\ LET trends == Val(Val(insights).value)
       IN /\ trends.mostFrequent \in WindowLabels
          /\ \A l \in WindowLabels : Occurrences(l) <= Occurrences(trends.mostFrequent)
          /\ trends.diversity = Cardinality(WindowLabels)

\* the slots of a context vector that the location and the activity set
LocationSlots == {3, 4}
ActivitySlots == 5..10

\* C23: the context encoding has exactly 20 entries, each within [0,1]; at
\* most one location slot and at most one activity slot is 1; a missing or
\* unrecognized location or activity leaves its slots at 0 and the call
\* returns without an error.
C23_ContextEncoding ==
  Asked("encodeContext") =>
    /\ Val(insights).threw = ""
    /\ ~IsNull(Val(insights).value)
    /\ LET encoded == Val(Val(insights).value)
           context == Val(Val(insights).result)
           known(x, names) == ~IsNull(x) /\ Val(x) \in names
       IN /\ DOMAIN encoded = 1..20
          /\ \A k \in 1..20 : encoded[k] >= 0 /\ encoded[k] <= One
          /\ Cardinality({k \in LocationSlots : encoded[k] = One}) <= 1
          /\ Cardinality({k \in ActivitySlots : encoded[k] = One}) <= 1
          /\ ~known(context.location, {"home", "work"})
               => \A k \in LocationSlots : encoded[k] = 0
          /\ ~known(context.activity, {Activities[k] : k \in 1..Len(Activities)})
               => \A k \in ActivitySlots : encoded[k] = 0

\* C23 witness: a context at home with an unknown activity has been encoded
\* late on a Saturday: the home slot is 1 and the activity slots are 0.
C23_Witness ==
  /\ Asked("encodeContext")
  /\ Val(Val(insights).result).location = Some("home")
  /\ Val(Val(insights).result).activity = Some("flying")
  /\ Val(Val(insights).value)[1] > 900
  /\ Val(Val(insights).value)[3] = One

\* the time of the evolution step whose snapshot a personality file holds
SavedAt(file) == ParsePersonality(Val(file)).lastUpdated

\* C24: whatever the order in which the pending saves complete, a save never
\* replaces the persisted personality profile by the snapshot of an earlier
\* evolution step, so that once every save has completed the persisted
\* profile is the in-memory one.
C24_NoStaleOverwrite ==
  [][(~IsNull(persFile) /\ ~IsNull(persFile'))
       => SavedAt(persFile') >= SavedAt(persFile)]_vars

\* the stages of a request that is inside initialize()
InitializeStages == {"load_models", "cal_info", "cal_read", "pers_info", "pers_read"}
\* the requests that are inside initialize()
Initializing == {r \in Req : pc[r] \in InitializeStages}

\* C25: of the requests that start on an engine that is not yet initialized
\* at most one runs initialize(), and no step of an initialization changes
\* the in-memory calibration or personality profile once some request has
\* completed (and so has updated them).
C25_SingleInitialization ==
  [][/\ Cardinality(Initializing') <= 1
     /\ \A r \in Initializing :
          (pc'[r] # pc[r] /\ \E q \in Req : pc[q] = "done")
            => UNCHANGED <<calibrationData, personalityProfile>>]_vars

\* C26: whenever isInitialized is true the calibration and the personality
\* profile are both present, and no request fails with a TypeError on a
\* missing profile, also when reading a stored profile failed during
\* initialization.
C26_InitializedHasProfiles ==
  isInitialized =>
    /\ ~IsNull(calibrationData)
    /\ ~IsNull(personalityProfile)
    /\ \A r \in Req :
         pc[r] = "failed" => Val(error[r]).name # "TypeError"

\* request r's step is the return of fuseEmotions with the FusionResult
Fuses(r) == pc[r] = "fuse" /\ pc'[r] = "update"
\* request r's step is one of its modality steps
Processes(r) == pc[r] \in {"facial", "voice", "text"} /\ pc'[r] # pc[r]

\* C27: within a request the profiles are not changed by its modality steps
\* nor by its fusion step, whose FusionResult is built from the personality
\* profile as it is then; the calibration update and the evolution step
\* come after it, find the result present, leave it as it is and evolve the
\* profile by that result.
C27_UpdatesAfterFusion ==
  [][\A r \in Req :
       /\ Processes(r) => UNCHANGED <<calibrationData, personalityProfile>>
       /\ Fuses(r) =>
            /\ UNCHANGED <<calibrationData, personalityProfile>>
            /\ fusedResult'[r] =
                 Some(FusionResult(Val(personalityProfile), modalityResults[r],
                                   predictions'[r]["fusion"]))
       /\ Updates(r) =>
            /\ ~IsNull(fusedResult[r])
            /\ fusedResult'[r] = fusedResult[r]
            /\ personalityProfile' =
                 Some(updatePersonalityProfile(Val(personalityProfile),
                                               Val(fusedResult[r]), now))]_vars

\* C27 witness: a request with recognized feedback has returned a happy
\* result; the bias and the extraversion it raised are in the profiles.
C27_Witness ==
  \E r \in Req :
    /\ pc[r] = "done"
    /\ HasFeedback(feedback[r])
    /\ Val(fusedResult[r]).primaryEmotion.emotion = "happy"
    /\ ~IsNull(calibrationData)
    /\ Val(calibrationData).facialBias[1] > 0
    /\ Val(personalityProfile).extraversion > NeutralTrait

\* the service's last handler was handler
Ran(handler) == ~IsNull(lastRun) /\ Val(lastRun).handler = handler
\* the service's last handler was the moodDetected listener or the interval
RanTrigger == Ran("moodDetected") \/ Ran("interval")

\* C28: once dispose() has returned, neither the interval nor a
\* moodDetected event executes an automation, any of its actions or a call
\* of applyMoodEnvironment.
C28_NoAutomationAfterDispose ==
  (stage = "disposed" /\ RanTrigger) =>
    /\ Val(lastRun).executed = <<>>
    /\ Val(lastRun).actions = <<>>
    /\ Val(lastRun).calls = <<>>

\* the automation of the service with this id
AutomationOf(id) ==
  automations[CHOOSE k \in 1..Len(automations) : automations[k].id = id]
\* the time that a run's time conditions look at
EventTime(run) ==
  IF IsNull(Val(run.data).time) THEN run.clock ELSE Val(Val(run.data).time)
\* minutes since midnight of a time string
Minutes(t) == (t[1] * 10 + t[2]) * 60 + t[3] * 10 + t[4]

C30_FailedApplyHasNoEffect ==
  (Ran("applyMoodEnvironment")
     /\ (~homeInitialized \/ Val(Val(lastRun).data) \notin DOMAIN moodEnvironments)) =>
    /\ Val(lastRun).threw # ""
    /\ Val(lastRun).devices = Val(lastRun).before.devices
    /\ Val(lastRun).scenes = Val(lastRun).before.scenes
    /\ Val(lastRun).events = <<>>

====
